---- MODULE Spec2Model ----
(***************************************************************************)
(* pygunshot: anechoic gunshot synthesis (muzzle blast + ballistic N-wave). *)
(*                                                                         *)
(* The library is numerical Python. Its floats are modelled as decimal     *)
(* floating-point numbers of Digits significant digits with the IEEE       *)
(* special values (NaN, +-inf), so that every formula of the source is      *)
(* evaluated operation by operation, in the order the source evaluates it. *)
(* A float is a record [k, m, e]: kind "fin" with value m * 10^e, "inf"    *)
(* with sign m, or "nan".                                                   *)
(***************************************************************************)
EXTENDS Integers, Sequences, FiniteSets, TLC

\* Significant decimal digits carried by a modelled float.
Digits == 5

Base == 10 ^ Digits
HalfDigits == Digits \div 2
HalfBase == 10 ^ HalfDigits

\* F applied to the values of its arguments, each evaluated once: the
\* sequencing of an assignment statement.
Let(v, F(_)) == CHOOSE y \in {F(x) : x \in {v}} : TRUE
Let2(v, w, F(_, _)) == CHOOSE y \in {F(a, b) : a \in {v}, b \in {w}} : TRUE

Abs(n) == IF n < 0 THEN -n ELSE n
Sgn(n) == IF n < 0 THEN -1 ELSE IF n = 0 THEN 0 ELSE 1

RECURSIVE NDigits(_)
NDigits(n) == IF n < 10 THEN 1 ELSE 1 + NDigits(n \div 10)

\* ---- float values -------------------------------------------------------
NaN == [k |-> "nan", m |-> 0, e |-> 0]
Inf(s) == [k |-> "inf", m |-> s, e |-> 0]
Zero == [k |-> "fin", m |-> 0, e |-> 0]

IsNaN(x) == x.k = "nan"
IsInf(x) == x.k = "inf"
IsFin(x) == x.k = "fin"

\* The float nearest to s * a * 10^e, for a > 0 of nd digits.
Round(s, a, nd, e) ==
  IF nd <= Digits
  THEN [k |-> "fin", m |-> s * a * 10 ^ (Digits - nd), e |-> e - (Digits - nd)]
  ELSE Let2(10 ^ (nd - Digits), e + nd - Digits,
            LAMBDA p, e1 :
              Let((a \div p) + (IF (a % p) * 2 >= p THEN 1 ELSE 0),
                  LAMBDA r : IF r = Base
                             THEN [k |-> "fin", m |-> s * (Base \div 10), e |-> e1 + 1]
                             ELSE [k |-> "fin", m |-> s * r, e |-> e1]))

\* The float nearest to m * 10^e (round half away from zero).
Norm(m, e) ==
  Let2(m, e, LAMBDA m1, e1 :
    IF m1 = 0 THEN Zero
    ELSE Let(Abs(m1), LAMBDA a : Round(Sgn(m1), a, NDigits(a), e1)))

\* A float literal m * 10^e, and the float of an integer.
Lit(m, e) == Norm(m, e)
FromInt(n) == Norm(n, 0)
FOne == [k |-> "fin", m |-> Base \div 10, e |-> 1 - Digits]

NegV(x) == [x EXCEPT !.m = -x.m]
FNeg(x) == Let(x, LAMBDA x1 : NegV(x1))
FAbs(x) == Let(x, LAMBDA x1 : [x1 EXCEPT !.m = Abs(x1.m)])

\* hi.e >= lo.e, both finite and nonzero
AddAligned(hi, lo) ==
  IF hi.e - lo.e > Digits + 2 THEN hi
  ELSE Let2(10 ^ (hi.e - lo.e), Abs(lo.m) * 100,
            LAMBDA p, a :
              Norm(hi.m * 100
                     + Sgn(lo.m) * ((a \div p) + (IF (a % p) * 2 >= p THEN 1 ELSE 0)),
                   hi.e - 2))

AddV(x, y) ==
  IF IsNaN(x) \/ IsNaN(y) THEN NaN
  ELSE IF IsInf(x) THEN (IF IsInf(y) /\ y.m # x.m THEN NaN ELSE x)
  ELSE IF IsInf(y) THEN y
  ELSE IF x.m = 0 THEN y
  ELSE IF y.m = 0 THEN x
  ELSE IF x.e >= y.e THEN AddAligned(x, y)
  ELSE AddAligned(y, x)

FAdd(x, y) == Let2(x, y, LAMBDA x1, y1 : AddV(x1, y1))
FSub(x, y) == Let2(x, y, LAMBDA x1, y1 : AddV(x1, NegV(y1)))

MulV(x, y) ==
  IF IsNaN(x) \/ IsNaN(y) THEN NaN
  ELSE IF IsInf(x) \/ IsInf(y)
       THEN (IF x.m = 0 \/ y.m = 0 THEN NaN ELSE Inf(Sgn(x.m) * Sgn(y.m)))
  ELSE IF x.m = 0 \/ y.m = 0 THEN Zero
  ELSE Let2(Abs(x.m), Abs(y.m),
            LAMBDA a, b :
              Norm(Sgn(x.m) * Sgn(y.m)
                     * (a * (b \div HalfBase) + ((a * (b % HalfBase)) \div HalfBase)),
                   x.e + y.e + HalfDigits))

FMul(x, y) == Let2(x, y, LAMBDA x1, y1 : MulV(x1, y1))

\* The first n digits of r / b, for 0 <= r < b.
RECURSIVE LongDiv(_, _, _)
LongDiv(r, b, n) ==
  IF n = 0 THEN 0
  ELSE Let(r * 10, LAMBDA r10 :
         (r10 \div b) * 10 ^ (n - 1) + LongDiv(r10 % b, b, n - 1))

\* IEEE division: x/0 is +-inf, 0/0 is NaN (numpy warns, it does not raise).
DivV(x, y) ==
  IF IsNaN(x) \/ IsNaN(y) THEN NaN
  ELSE IF IsInf(x) THEN (IF IsInf(y) THEN NaN
                         ELSE Inf(x.m * (IF y.m < 0 THEN -1 ELSE 1)))
  ELSE IF IsInf(y) THEN Zero
  ELSE IF y.m = 0 THEN (IF x.m = 0 THEN NaN ELSE Inf(Sgn(x.m)))
  ELSE IF x.m = 0 THEN Zero
  ELSE Let2(Abs(x.m), Abs(y.m),
            LAMBDA a, b :
              Norm(Sgn(x.m) * Sgn(y.m)
                     * ((a \div b) * (10 * Base) + LongDiv(a % b, b, Digits + 1)),
                   x.e - y.e - Digits - 1))

FDiv(x, y) == Let2(x, y, LAMBDA x1, y1 : DivV(x1, y1))

\* Comparisons: every comparison with NaN is false.
LtV(x, y) ==
  IF IsNaN(x) \/ IsNaN(y) THEN FALSE
  ELSE IF IsInf(x) THEN x.m < 0 /\ ~(IsInf(y) /\ y.m < 0)
  ELSE IF IsInf(y) THEN y.m > 0
  ELSE IF Sgn(x.m) # Sgn(y.m) THEN Sgn(x.m) < Sgn(y.m)
  ELSE IF x.m = 0 THEN FALSE
  ELSE IF x.m > 0 THEN x.e < y.e \/ (x.e = y.e /\ x.m < y.m)
  ELSE x.e > y.e \/ (x.e = y.e /\ x.m < y.m)

FLt(x, y) == Let2(x, y, LAMBDA x1, y1 : LtV(x1, y1))
FGt(x, y) == Let2(x, y, LAMBDA x1, y1 : LtV(y1, x1))
FLe(x, y) == Let2(x, y, LAMBDA x1, y1 : ~IsNaN(x1) /\ ~IsNaN(y1) /\ ~LtV(y1, x1))
FGe(x, y) == Let2(x, y, LAMBDA x1, y1 : ~IsNaN(x1) /\ ~IsNaN(y1) /\ ~LtV(x1, y1))

\* int(x): truncation toward zero of a finite float.
Trunc(x) ==
  Let(x, LAMBDA x1 :
    IF x1.e >= 0 THEN x1.m * 10 ^ x1.e
    ELSE IF -x1.e > 9 THEN 0
    ELSE Sgn(x1.m) * (Abs(x1.m) \div 10 ^ (-x1.e)))

\* Nearest integer of a finite float of moderate size.
RoundInt(x) == Let(x, LAMBDA x1 : Trunc(AddV(x1, Lit(5 * Sgn(x1.m), -1))))

\* ---- elementary functions ------------------------------------------------
FLn2 == Lit(693147, -6)
FLn10 == Lit(2302585, -6)
FPi == Lit(3141593, -6)
FHalfPi == Lit(1570796, -6)
FQuarterPi == Lit(785398, -6)

RECURSIVE Newton(_, _, _)
Newton(x, y, n) ==
  IF n = 0 THEN y
  ELSE Let(FMul(Lit(5, -1), FAdd(y, FDiv(x, y))), LAMBDA z : Newton(x, z, n - 1))

\* np.sqrt: NaN (with a warning) for a negative argument.
FSqrt(x) ==
  Let(x, LAMBDA x1 :
    IF IsNaN(x1) THEN NaN
    ELSE IF IsInf(x1) THEN (IF x1.m > 0 THEN x1 ELSE NaN)
    ELSE IF x1.m < 0 THEN NaN
    ELSE IF x1.m = 0 THEN Zero
    ELSE Newton(x1, Lit(2, (x1.e + Digits - 1) \div 2), 8))

\* c[i] + z*(c[i+1] + z*(c[i+2] + ...)): the partial sum of a power series.
RECURSIVE Horner(_, _, _)
Horner(c, z, i) ==
  IF i = Len(c) THEN c[i]
  ELSE FAdd(c[i], FMul(z, Horner(c, z, i + 1)))

\* The series with coefficients 1/d[1], 1/d[2], ... at z.
Series(d, z) ==
  Let2([i \in 1..Len(d) |-> DivV(FOne, FromInt(d[i]))], z,
       LAMBDA c, z1 : Horner(c, z1, 1))

\* ln of y in [1, 2), by the series of 2 artanh((y-1)/(y+1)).
LnSeries(y) ==
  Let(FDiv(FSub(y, FOne), FAdd(y, FOne)), LAMBDA z :
    FMul(FMul(FromInt(2), z), Series(<<1, 3, 5, 7, 9>>, FMul(z, z))))

\* np.log: -inf at 0 and NaN below it (warnings, no exception).
FLn(x) ==
  Let(x, LAMBDA x1 :
    IF IsNaN(x1) THEN NaN
    ELSE IF IsInf(x1) THEN (IF x1.m > 0 THEN x1 ELSE NaN)
    ELSE IF x1.m < 0 THEN NaN
    ELSE IF x1.m = 0 THEN Inf(-1)
    ELSE Let2([x1 EXCEPT !.e = 1 - Digits], x1.e + Digits - 1,
              LAMBDA mant, ex :
                Let(IF FGe(mant, FromInt(8)) THEN 3
                    ELSE IF FGe(mant, FromInt(4)) THEN 2
                    ELSE IF FGe(mant, FromInt(2)) THEN 1 ELSE 0,
                    LAMBDA k :
                      FAdd(FAdd(LnSeries(FDiv(mant, FromInt(2 ^ k))),
                                FMul(FromInt(k), FLn2)),
                           FMul(FromInt(ex), FLn10)))))

RECURSIVE SquareN(_, _)
SquareN(y, n) == IF n = 0 THEN y ELSE Let(FMul(y, y), LAMBDA y2 : SquareN(y2, n - 1))

\* np.exp: 10^n * exp(x - n ln 10), the latter by the series of exp(r/8)^8.
FExp(x) ==
  Let(x, LAMBDA x1 :
    IF IsNaN(x1) THEN NaN
    ELSE IF IsInf(x1) THEN (IF x1.m > 0 THEN x1 ELSE Zero)
    ELSE IF x1.m = 0 THEN FOne
    ELSE IF x1.e + Digits > 4 THEN (IF x1.m > 0 THEN Inf(1) ELSE Zero)
    ELSE Let(RoundInt(FDiv(x1, FLn10)), LAMBDA n :
           Let(SquareN(Series(<<1, 1, 2, 6, 24, 120>>,
                              FDiv(FSub(x1, FMul(FromInt(n), FLn10)), FromInt(8))), 3),
               LAMBDA y : IF y.m = 0 THEN Zero ELSE [y EXCEPT !.e = y.e + n])))

\* sin and cos of an angle in [-pi/4, pi/4], by their power series.
SinSeries(x) ==
  Let(x, LAMBDA x1 :
    FMul(x1, Series(<<1, -6, 120, -5040, 362880, -39916800>>, FMul(x1, x1))))
CosSeries(x) ==
  Let(x, LAMBDA x1 :
    Series(<<1, -2, 24, -720, 40320, -3628800, 479001600>>, FMul(x1, x1)))

\* np.sin, np.cos: the arguments of this program lie in [-pi, pi]; reduced
\* by quadrant, so that sin(pi/2) = 1, cos(pi/2) = 0 and sin(pi) = 0.
FSin(x) ==
  Let(x, LAMBDA x1 :
    IF ~IsFin(x1) THEN NaN
    ELSE Let2(FAbs(x1), Sgn(x1.m), LAMBDA a, s :
           Let(IF FLe(a, FQuarterPi) THEN SinSeries(a)
               ELSE IF FLe(a, FSub(FPi, FQuarterPi)) THEN CosSeries(FSub(a, FHalfPi))
               ELSE SinSeries(FSub(FPi, a)),
               LAMBDA v : IF s < 0 THEN NegV(v) ELSE v)))
FCos(x) ==
  Let(x, LAMBDA x1 :
    IF ~IsFin(x1) THEN NaN
    ELSE Let(FAbs(x1), LAMBDA a :
           IF FLe(a, FQuarterPi) THEN CosSeries(a)
           ELSE IF FLe(a, FSub(FPi, FQuarterPi)) THEN FNeg(SinSeries(FSub(a, FHalfPi)))
           ELSE FNeg(CosSeries(FSub(FPi, a)))))

\* arctan of w in [-1, 1]: one half-angle reduction, then the power series.
ArcTan(w) ==
  Let(w, LAMBDA w1 :
    Let(FDiv(w1, FAdd(FOne, FSqrt(FAdd(FOne, FMul(w1, w1))))), LAMBDA z :
      FMul(FromInt(2), FMul(z, Series(<<1, -3, 5, -7, 9, -11>>, FMul(z, z))))))

\* np.arcsin: NaN (with a warning) outside [-1, 1]; exact at 0 and +-1.
FArcsin(y) ==
  Let(y, LAMBDA y1 :
    IF ~IsFin(y1) THEN NaN
    ELSE IF LtV(FOne, y1) \/ LtV(y1, NegV(FOne)) THEN NaN
    ELSE IF y1.m = 0 THEN Zero
    ELSE IF y1 = FOne THEN FHalfPi
    ELSE IF y1 = NegV(FOne) THEN FNeg(FHalfPi)
    ELSE FMul(FromInt(2),
              ArcTan(FDiv(y1, FAdd(FOne, FSqrt(FSub(FOne, FMul(y1, y1))))))))

\* np.arccos: NaN outside [-1, 1]; the result lies in [0, pi].
FArccos(y) ==
  Let(y, LAMBDA y1 :
    IF ~IsFin(y1) THEN NaN
    ELSE IF LtV(FOne, y1) \/ LtV(y1, NegV(FOne)) THEN NaN
    ELSE IF y1 = FOne THEN Zero
    ELSE IF y1 = NegV(FOne) THEN FPi
    ELSE FSub(FHalfPi, FArcsin(y1)))

\* np.power(x, 2) and np.power(x, n/8) for the exponents the program uses
\* (0.125, 0.25, 0.375, 0.75): NaN for a negative base, as numpy gives.
FSq(x) == Let(x, LAMBDA x1 : MulV(x1, x1))
FPow8(x, n) ==
  Let(FSqrt(x), LAMBDA r2 :
    Let(FSqrt(r2), LAMBDA r4 :
      Let(FSqrt(r4), LAMBDA r8 :
        FMul(FMul(IF n \div 4 = 1 THEN r2 ELSE FOne,
                  IF (n \div 2) % 2 = 1 THEN r4 ELSE FOne),
             IF n % 2 = 1 THEN r8 ELSE FOne))))

\* ---- numpy arrays and Python lists ---------------------------------------
\* A 3-vector is a tagged sequence: an ndarray or a Python list.
NpArray(x) == [tag |-> "ndarray", v |-> x.v]
ToList(a) == [tag |-> "list", v |-> a.v]
Vec(a, b, c) == [tag |-> "ndarray", v |-> <<FromInt(a), FromInt(b), FromInt(c)>>]

VSub(a, b) ==
  [tag |-> "ndarray", v |-> <<FSub(a.v[1], b.v[1]), FSub(a.v[2], b.v[2]), FSub(a.v[3], b.v[3])>>]
VDiv(a, c) ==
  Let(c, LAMBDA c1 :
    [tag |-> "ndarray", v |-> <<DivV(a.v[1], c1), DivV(a.v[2], c1), DivV(a.v[3], c1)>>])
Dot(a, b) ==
  Let2(a, b, LAMBDA a1, b1 :
    FAdd(FAdd(MulV(a1.v[1], b1.v[1]), MulV(a1.v[2], b1.v[2])), MulV(a1.v[3], b1.v[3])))
LinalgNorm(a) == Let(a, LAMBDA a1 : FSqrt(Dot(a1, a1)))

\* A linspace that rounds a float num to the nearest integer.
LinspaceRounds(start, stop, num) ==
  Let(RoundInt(num), LAMBDA n :
    IF n <= 0 THEN << >>
    ELSE IF n = 1 THEN <<start>>
    ELSE Let(FDiv(FSub(stop, start), FromInt(n - 1)), LAMBDA step :
           [i \in 1..n |-> IF i = n THEN stop
                           ELSE FAdd(FMul(FromInt(i - 1), step), start)]))

\* np.linspace(start, stop, num) with endpoint=True; a float num is
\* converted with int(), i.e. truncated.
Linspace(start, stop, num) ==
  Let(Trunc(num), LAMBDA n :
    IF n <= 0 THEN << >>
    ELSE IF n = 1 THEN <<start>>
    ELSE Let(FDiv(FSub(stop, start), FromInt(n - 1)), LAMBDA step :
           [i \in 1..n |-> IF i = n THEN stop
                           ELSE FAdd(FMul(FromInt(i - 1), step), start)]))

\* a + b of two arrays of one length
ArrayAdd(a, b) == [i \in 1..Len(a) |-> AddV(a[i], b[i])]

\* np.zeros(n)
Zeros(n) == [i \in 1..n |-> Zero]

\* ---- util.py ---------------------------------------------------------------
convertPressureToPascals(mpressure) == FMul(Lit(980665, -1), mpressure)

computeGeometry(xmic, xgun) ==
  Let(VSub(xmic, xgun), LAMBDA dx :
    Let(LinalgNorm(dx), LAMBDA r :
      Let(FArccos(FDiv(Dot(dx, Vec(0, 1, 0)), r)), LAMBDA theta :
        [r |-> r, theta |-> theta])))

packGeometry(xgun, xmic, ngun, label) ==
  [xgun |-> ToList(xgun), xmic |-> ToList(xmic), ngun |-> ToList(ngun), label |-> label]

\* An unpackGeometry that reads the gun position from the microphone's key.
unpackGeometrySwapped(geomDict) ==
  LET xgun == NpArray(geomDict.xmic)
      xmic == NpArray(geomDict.xgun)
      ngun == NpArray(geomDict.ngun)
      label == geomDict.label
  IN <<label, xgun, xmic, ngun>>

\* returns the tuple (label, xgun, xmic, ngun)
unpackGeometry(geomDict) ==
  LET xgun == NpArray(geomDict.xgun)
      xmic == NpArray(geomDict.xmic)
      ngun == NpArray(geomDict.ngun)
      label == geomDict.label
  IN <<label, xgun, xmic, ngun>>

packBallistics(bulletDiam, bulletLen, barrelLength, pexit, uexit, gunlabel, ammolabel) ==
  [bulletDiam |-> bulletDiam, bulletLen |-> bulletLen, barrelLength |-> barrelLength,
   pexit |-> pexit, uexit |-> uexit, gunlabel |-> gunlabel, ammolabel |-> ammolabel]

\* returns the tuple (gunlabel, ammolabel, bulletDiam, bulletLen, barrelLength, pexit, uexit)
unpackBallistics(ballistDict) ==
  LET bulletDiam == ballistDict.bulletDiam
      bulletLen == ballistDict.bulletLen
      barrelLength == ballistDict.barrelLength
      pexit == ballistDict.pexit
      uexit == ballistDict.uexit
      gunlabel == ballistDict.gunlabel
      ammolabel == ballistDict.ammolabel
  IN <<gunlabel, ammolabel, bulletDiam, bulletLen, barrelLength, pexit, uexit>>

\* ---- nwave.py --------------------------------------------------------------
MachNumber(v) ==
  LET csnd == Lit(341, 0)
  IN FDiv(v, csnd)

\* 1.0/M is a division of Python floats: it raises ZeroDivisionError at M = 0.
coneAngleRaises(M) == IsFin(M) /\ M.m = 0
coneAngle(M) == FArcsin(FDiv(FOne, M))

\* returns (dmis, dlin)
missDistance(xgun, ngun, xmic) ==
  Let(VSub(NpArray(xmic), NpArray(xgun)), LAMBDA mvec :
    Let(FSqrt(Dot(mvec, mvec)), LAMBDA dvec :
      Let(VDiv(ngun, FSqrt(Dot(ngun, ngun))), LAMBDA nrm :
        Let(Dot(mvec, nrm), LAMBDA dlin :
          Let(FSqrt(FSub(FSq(dvec), FSq(dlin))), LAMBDA dmis :
            [dmis |-> dmis, dlin |-> dlin])))))

nWaveOverPressure(v, d, l, x) ==
  LET P0 == Lit(101, 3)
  IN Let(MachNumber(v), LAMBDA M :
       FMul(FDiv(FMul(FMul(Lit(53, -2), d), FPow8(FSub(FSq(M), FOne), 1)),
                 FMul(FPow8(x, 6), FPow8(l, 2))),
            P0))

nWaveDuration(v, d, l, x) ==
  LET cs == Lit(341, 0)
  IN Let(MachNumber(v), LAMBDA M :
       Let(FDiv(FMul(FMul(Lit(182, -2), d), FMul(M, FPow8(x, 2))),
                FMul(FPow8(FSub(FSq(M), FOne), 3), FPow8(l, 2))),
           LAMBDA L : FDiv(L, cs)))

\* An arrival time without the projectile's flight along the barrel line.
nWaveTimeOfArrivalNoFlight(v, xgun, ngun, xmic) ==
  LET cs == Lit(341, 0)
  IN Let(MachNumber(v), LAMBDA M :
       Let(coneAngle(M), LAMBDA th :
         Let(missDistance(xgun, ngun, xmic), LAMBDA md :
           FDiv(FMul(FCos(th), md.dmis), cs))))

nWaveTimeOfArrival(v, xgun, ngun, xmic) ==
  LET cs == Lit(341, 0)
  IN Let(MachNumber(v), LAMBDA M :
       Let(coneAngle(M), LAMBDA th :
         Let(missDistance(xgun, ngun, xmic), LAMBDA md :
           FAdd(FDiv(FMul(FCos(th), md.dmis), cs), FDiv(md.dlin, v)))))

nWaveRiseTime(pmax) ==
  LET lamb == Lit(68, -9)
      P0 == Lit(101, 3)
      cs == Lit(341, 0)
  IN FDiv(FMul(FDiv(lamb, cs), P0), pmax)

\* The three sloped segments of the N-wave: lines 159, 161 and 163.
nWaveRising(pmax, ta, tr, t) == FMul(FDiv(FSub(t, ta), tr), pmax)
nWaveFalling(pmax, ta, Td, tr, t) ==
  FMul(FSub(FOne, FDiv(FMul(FromInt(2), FSub(FSub(t, ta), tr)),
                       FSub(Td, FMul(FromInt(2), tr)))),
       pmax)
nWaveRecovering(pmax, ta, Td, tr, t) ==
  FMul(FAdd(FromInt(-1), FDiv(FAdd(FSub(FSub(t, ta), Td), tr), tr)), pmax)

\* An if/elif chain whose falling segment excludes its right end.
nWaveSegmentsGap(pmax, ta, Td, tr, t) ==
  IF FLt(t, ta) THEN Zero
  ELSE IF FLe(t, FAdd(ta, tr)) /\ FGt(t, ta)
       THEN nWaveRising(pmax, ta, tr, t)
  ELSE IF FLt(t, FSub(FAdd(ta, Td), tr)) /\ FGt(t, FAdd(ta, tr))
       THEN nWaveFalling(pmax, ta, Td, tr, t)
  ELSE IF FLe(t, FAdd(ta, Td)) /\ FGt(t, FSub(FAdd(ta, Td), tr))
       THEN nWaveRecovering(pmax, ta, Td, tr, t)
  ELSE Zero

\* The if/elif chain of nWave, on the parameters nWave computed.
nWaveSegments(pmax, ta, Td, tr, t) ==
  IF FLt(t, ta) THEN Zero
  ELSE IF FLe(t, FAdd(ta, tr)) /\ FGt(t, ta)
       THEN nWaveRising(pmax, ta, tr, t)
  ELSE IF FLe(t, FSub(FAdd(ta, Td), tr)) /\ FGt(t, FAdd(ta, tr))
       THEN nWaveFalling(pmax, ta, Td, tr, t)
  ELSE IF FLe(t, FAdd(ta, Td)) /\ FGt(t, FSub(FAdd(ta, Td), tr))
       THEN nWaveRecovering(pmax, ta, Td, tr, t)
  ELSE Zero

\* The parameters nWave derives from its arguments before it branches.
nWaveParameters(xgun, ngun, xmic, v, d, l, x) ==
  Let(nWaveOverPressure(v, d, l, x), LAMBDA pmax :
    [pmax |-> pmax,
     ta |-> nWaveTimeOfArrival(v, xgun, ngun, xmic),
     Td |-> nWaveDuration(v, d, l, x),
     tr |-> nWaveRiseTime(pmax)])

nWave(xgun, ngun, xmic, v, d, l, x, t) ==
  Let(nWaveParameters(xgun, ngun, xmic, v, d, l, x), LAMBDA p :
    nWaveSegments(p.pmax, p.ta, p.Td, p.tr, t))

\* nWave is a pure function of its arguments: the parameters, the same for
\* every sample, are evaluated once here. The result is the returned array
\* wv, with the parameters nWave used (p) for observation.
calculateNWave(xgun, ngun, xmic, v, d, l, x, dur, Fs) ==
  Let2(Linspace(Zero, dur, FMul(dur, Fs)), nWaveParameters(xgun, ngun, xmic, v, d, l, x),
       LAMBDA t, p :
         [wv |-> [ind \in 1..Len(t) |-> nWaveSegments(p.pmax, p.ta, p.Td, p.tr, t[ind])],
          p |-> p])

\* A Friedlander wave that is still zero at the arrival time itself.
friedlanderLate(t, ta, tau, Pp) ==
  LET pinf == Lit(101, 3)
      ainf == Lit(341, 0)
  IN IF FLe(t, ta) THEN Zero
     ELSE Let(FDiv(FSub(t, ta), tau), LAMBDA x :
            FMul(FMul(FMul(FMul(Pp, FSub(FOne, x)), FExp(FNeg(x))), pinf), ainf))

\* ---- muzzleblast.py --------------------------------------------------------
friedlander(t, ta, tau, Pp) ==
  LET pinf == Lit(101, 3)
      ainf == Lit(341, 0)
  IN IF FLt(t, ta) THEN Zero
     ELSE Let(FDiv(FSub(t, ta), tau), LAMBDA x :
            FMul(FMul(FMul(FMul(Pp, FSub(FOne, x)), FExp(FNeg(x))), pinf), ainf))

muzzleblast(tarr, ta, tau, Pp) ==
  [ind \in 1..Len(tarr) |-> friedlander(tarr[ind], ta, tau, Pp)]

\* returns (l, lp)
scalinglength(gammae, pe, ue, Ae, mu, theta) ==
  LET pinf == Lit(101, 3)
      ainf == Lit(341, 0)
  IN Let2(FDiv(pe, pinf), MachNumber(ue), LAMBDA peb, Me :
       Let(FMul(FMul(FDiv(FMul(FMul(gammae, peb), ue), FSub(gammae, FOne)),
                     FAdd(FOne, FMul(FDiv(FSub(gammae, FOne), FromInt(2)), FSq(Me)))),
                Ae),
           LAMBDA dEdt :
             Let2(FSqrt(FDiv(dEdt, FMul(pinf, ainf))),
                  FAdd(FMul(mu, FCos(theta)),
                       FSqrt(FSub(FOne, FMul(FSq(mu), FSq(FSin(theta)))))),
                  LAMBDA l, ratio : [l |-> l, lp |-> FMul(FMul(l, ratio), FromInt(10))])))

momentumindex(M, pe, gamma) ==
  Let(FDiv(convertPressureToPascals(pe), Lit(101, 3)), LAMBDA pe1 :
    Let(FMul(M, FSqrt(FDiv(FMul(gamma, pe1), FromInt(2)))), LAMBDA xmod :
      FSub(Lit(87, -2), FMul(Lit(1, -2), xmod))))

\* peakOverpressure, with the branch of its `if rb<50` that it took.
peakOverpressureBranch(r, lp) ==
  Let2(FDiv(r, lp), FDiv(lp, r), LAMBDA rb, lpr :
    IF FLt(rb, FromInt(50))
    THEN Let(FAdd(FMul(Lit(89, -2), lpr), FMul(Lit(161, -2), FSq(lpr))),
             LAMBDA Pb : [out |-> FDiv(Pb, FromInt(100)), branch |-> "near"])
    ELSE Let(FDiv(Lit(348975, -5), FMul(rb, FSqrt(FLn(FMul(Lit(33119, 0), rb))))),
             LAMBDA Pb : [out |-> FDiv(Pb, FromInt(100)), branch |-> "far"]))

peakOverpressure(r, lp) == peakOverpressureBranch(r, lp).out

timeOfArrival(r, lp) ==
  LET ainf == Lit(341, 0)
  IN Let(FDiv(r, lp), LAMBDA rb :
       Let(FSqrt(FAdd(FAdd(FSq(rb), FMul(Lit(104, -2), rb)), Lit(188, -2))), LAMBDA X :
         Let(FSub(FSub(X, FMul(Lit(52, -2),
                               FLn(FAdd(FAdd(FMul(FromInt(2), X), FMul(FromInt(2), rb)),
                                        Lit(104, -2))))),
                  Lit(56, -2)),
             LAMBDA tab : FDiv(FMul(lp, tab), ainf))))

\* A positive phase duration whose near-field branch includes rb = 50.
positivePhaseDurationBranchAt50Near(r, lp, l, L, Vp) ==
  LET ainf == Lit(341, 0)
  IN Let(FDiv(r, lp), LAMBDA rb :
       Let2(FSqrt(FAdd(FAdd(FSq(rb), FMul(Lit(104, -2), rb)), Lit(188, -2))),
            FDiv(FMul(L, ainf), FMul(Vp, l)),
            LAMBDA X, delta :
              Let(FAdd(FSub(Lit(9, -2), FMul(Lit(379, -5), delta)),
                       FDiv(FMul(FMul(Lit(107, -2),
                                      FSub(FOne, FMul(Lit(136, -2),
                                                      FExp(FMul(Lit(-49, -3), rb))))),
                                 l),
                            lp)),
                  LAMBDA G :
                    IF FLe(rb, FromInt(50))
                    THEN Let(FAdd(FAdd(FAdd(FSub(rb, X),
                                            FMul(Lit(52, -2),
                                                 FLn(FAdd(FAdd(FMul(FromInt(2), X),
                                                               FMul(FromInt(2), rb)),
                                                          Lit(104, -2))))),
                                       Lit(56, -2)),
                                  G),
                             LAMBDA tb : [out |-> FDiv(FMul(tb, lp), ainf), branch |-> "near"])
                    ELSE Let(FAdd(FSub(FMul(Lit(299, -2),
                                            FSqrt(FLn(FMul(Lit(33119, 0), rb)))),
                                       Lit(8534, -3)),
                                  G),
                             LAMBDA tb : [out |-> FDiv(FMul(tb, lp), ainf), branch |-> "far"]))))

\* positivePhaseDuration, with the branch of its `if rb<50` that it took.
positivePhaseDurationBranch(r, lp, l, L, Vp) ==
  LET ainf == Lit(341, 0)
  IN Let(FDiv(r, lp), LAMBDA rb :
       Let2(FSqrt(FAdd(FAdd(FSq(rb), FMul(Lit(104, -2), rb)), Lit(188, -2))),
            FDiv(FMul(L, ainf), FMul(Vp, l)),
            LAMBDA X, delta :
              Let(FAdd(FSub(Lit(9, -2), FMul(Lit(379, -5), delta)),
                       FDiv(FMul(FMul(Lit(107, -2),
                                      FSub(FOne, FMul(Lit(136, -2),
                                                      FExp(FMul(Lit(-49, -3), rb))))),
                                 l),
                            lp)),
                  LAMBDA G :
                    IF FLt(rb, FromInt(50))
                    THEN Let(FAdd(FAdd(FAdd(FSub(rb, X),
                                            FMul(Lit(52, -2),
                                                 FLn(FAdd(FAdd(FMul(FromInt(2), X),
                                                               FMul(FromInt(2), rb)),
                                                          Lit(104, -2))))),
                                       Lit(56, -2)),
                                  G),
                             LAMBDA tb : [out |-> FDiv(FMul(tb, lp), ainf), branch |-> "near"])
                    ELSE Let(FAdd(FSub(FMul(Lit(299, -2),
                                            FSqrt(FLn(FMul(Lit(33119, 0), rb)))),
                                       Lit(8534, -3)),
                                  G),
                             LAMBDA tb : [out |-> FDiv(FMul(tb, lp), ainf), branch |-> "far"]))))

positivePhaseDuration(r, lp, l, L, Vp) == positivePhaseDurationBranch(r, lp, l, L, Vp).out

\* The parameters calculatemuzzleblast derives before it samples the wave.
muzzleblastParameters(gammae, pe, ue, Ae, mu, theta, r, d, Lm, Vp) ==
  Let(scalinglength(gammae, convertPressureToPascals(pe), ue, Ae, mu, theta), LAMBDA sl :
    Let2(positivePhaseDurationBranch(r, sl.lp, sl.l, Lm, Vp), peakOverpressureBranch(r, sl.lp),
         LAMBDA tau, Pb :
           [l |-> sl.l, lp |-> sl.lp,
            ta |-> timeOfArrival(r, sl.lp),
            tau |-> tau.out, Pb |-> Pb.out,
            tauBranch |-> tau.branch, PbBranch |-> Pb.branch]))

\* returns (Pmb, t); p holds the parameters it computed, for observation.
calculatemuzzleblast(gammae, pe, ue, Ae, mu, theta, r, d, Lm, Vp, duration, Fs) ==
  Let2(Linspace(Zero, duration, FMul(duration, Fs)),
       muzzleblastParameters(gammae, pe, ue, Ae, mu, theta, r, d, Lm, Vp),
       LAMBDA t, p : [Pmb |-> muzzleblast(t, p.ta, p.tau, p.Pb), t |-> t, p |-> p])

\* A gate that tests the exit velocity only.
haveSonicBoomAnyAngle(uexit, theta, thM) ==
  FGt(uexit, Lit(341, 0))

\* ---- process.py ------------------------------------------------------------
\* The condition of the sonic-boom branch of _getAnechoicGunshot.
haveSonicBoom(uexit, theta, thM) ==
  FGt(uexit, Lit(341, 0)) /\ FLt(theta, FSub(FPi, thM))

\* ---- the shots the model runs ----------------------------------------------
\* Microphone positions lie up to MaxRange metres from the gun.
MaxRange == 3

Offsets == {<<0, 1, 0>>, <<0, -1, 0>>, <<1, 0, 0>>, <<0, 0, 1>>, <<1, -1, 0>>}
GunPos == <<1, 0, 0>>
MicPositions ==
  {<<GunPos[1] + k * o[1], GunPos[2] + k * o[2], GunPos[3] + k * o[3]>> :
     k \in 0..MaxRange, o \in Offsets}
BarrelDirs == {<<0, 1, 0>>, <<0, 0, 1>>}
ExitVelocities == {200, 341, 900}
\* (duration, Fs): 3.64, 4 and 1.5 samples
Timings == {<<Lit(56, -4), Lit(650, 0)>>, <<Lit(1, -2), Lit(400, 0)>>,
            <<Lit(25, -4), Lit(600, 0)>>}

Shot(g, m, n, u, dur, fs) ==
  [run |-> TRUE, xgun |-> Vec(g[1], g[2], g[3]), xmic |-> Vec(m[1], m[2], m[3]),
   ngun |-> Vec(n[1], n[2], n[3]), label |-> "scene",
   bulletDiam |-> Lit(9, -3), bulletLen |-> Lit(3, -2), barrelLength |-> Lit(3, -1),
   pexit |-> Lit(2000, 0), uexit |-> FromInt(u), gunlabel |-> "gun", ammolabel |-> "ammo",
   duration |-> dur, Fs |-> fs]

\* The two scenarios of the specification: microphone 100 m down the barrel
\* axis, 0.05 s at 48 kHz, supersonic (900 m/s) and subsonic (200 m/s).
Scenario(u) == Shot(<<0, 0, 0>>, <<0, 0, 100>>, <<0, 0, 1>>, u, Lit(5, -2), Lit(48000, 0))

Shots ==
  {Shot(GunPos, m, n, u, tm[1], tm[2]) :
     m \in MicPositions, n \in BarrelDirs, u \in ExitVelocities, tm \in Timings}
  \cup {Scenario(900), Scenario(200)}

\* No synthesis: the library functions are called directly.
NoShot == [Scenario(200) EXCEPT !.run = FALSE]

NoProbe == [fn |-> "none", args |-> << >>, out |-> Zero]

\* Arguments of the direct calls. Times and durations are small numbers the
\* floats represent exactly, up to MaxTime in steps of one half.
MaxTime == 7
ProbeTimes == {Lit(5 * k, -1) : k \in -2..(2 * MaxTime)}
ProbeArrivals == {Zero, FromInt(2)}
ProbeMachs == {Zero, Lit(5, -1), FOne, FromInt(2), FromInt(-2)}
\* Ranges and weighted scaling lengths either side of r/lp = 50
ProbeRanges == {FromInt(k) : k \in 48..52}
ProbeScalings == {FOne, Lit(5, -1)}

NoLocals ==
  [label |-> "", xgun |-> Vec(0, 0, 0), xmic |-> Vec(0, 0, 0), ngun |-> Vec(0, 0, 0),
   gunlabel |-> "", ammolabel |-> "", bulletDiam |-> Zero, bulletLen |-> Zero,
   barrelLength |-> Zero, pexit |-> Zero, uexit |-> Zero, duration |-> Zero, Fs |-> Zero,
   r |-> Zero, theta |-> Zero, Ae |-> Zero, M |-> Zero, mu |-> Zero, xmiss |-> Zero,
   Pmb |-> << >>, t |-> << >>, sig |-> << >>, thM |-> Zero, Pnw |-> << >>,
   boom |-> FALSE,
   \* observed locals of the callees: calculatemuzzleblast, nWave, missDistance
   mb |-> [l |-> Zero, lp |-> Zero, ta |-> Zero, tau |-> Zero, Pb |-> Zero,
           tauBranch |-> "", PbBranch |-> ""],
   nw |-> [pmax |-> Zero, ta |-> Zero, Td |-> Zero, tr |-> Zero],
   md |-> [dmis |-> Zero, dlin |-> Zero]]

NoDict == [x \in {} |-> x]

VARIABLES
  input,        \* the shot to synthesise, or NoShot
  pc,           \* position in getGunShot / _getAnechoicGunshot
  geomDict,     \* the packed scene record
  ballistDict,  \* the packed ballistics record
  loc,          \* the locals of getGunShot and _getAnechoicGunshot
  ret,          \* the tuple getGunShot returned: (sig, Pmb, Pnw)
  exc,          \* the exception raised, "none" if none
  probe         \* the last direct call of a library function and its result

vars == <<input, pc, geomDict, ballistDict, loc, ret, exc, probe>>

Init ==
  /\ input \in Shots \cup {NoShot}
  /\ pc = "idle"
  /\ geomDict = NoDict
  /\ ballistDict = NoDict
  /\ loc = NoLocals
  /\ ret = << >>
  /\ exc = "none"
  /\ probe = NoProbe

\* The caller packs the scene and the ballistics (util.packGeometry,
\* util.packBallistics).
Pack ==
  /\ pc = "idle"
  /\ input.run
  /\ geomDict' = packGeometry(input.xgun, input.xmic, input.ngun, input.label)
  /\ ballistDict' = packBallistics(input.bulletDiam, input.bulletLen, input.barrelLength,
                                   input.pexit, input.uexit, input.gunlabel, input.ammolabel)
  /\ pc' = "packed"
  /\ UNCHANGED <<input, loc, ret, exc, probe>>

\* getGunShot, up to its call of _getAnechoicGunshot: both records unpacked
\* and the tuples bound, position by position, to the locals.
GetGunShot ==
  /\ pc = "packed"
  /\ \E g \in {unpackGeometry(geomDict)}, b \in {unpackBallistics(ballistDict)} :
       loc' = [loc EXCEPT !.label = g[1], !.xgun = g[2], !.xmic = g[3], !.ngun = g[4],
                          !.gunlabel = b[1], !.ammolabel = b[2], !.bulletDiam = b[3],
                          !.bulletLen = b[4], !.barrelLength = b[5], !.pexit = b[6],
                          !.uexit = b[7], !.duration = input.duration, !.Fs = input.Fs]
  /\ pc' = "unpacked"
  /\ UNCHANGED <<input, geomDict, ballistDict, ret, exc, probe>>

\* _getAnechoicGunshot, lines 29-41: geometry and the scalar parameters.
Geometry ==
  /\ pc = "unpacked"
  /\ \E xmic \in {NpArray(loc.xmic)}, xgun \in {NpArray(loc.xgun)},
        ngun \in {NpArray(loc.ngun)}, gammae \in {Lit(124, -2)} :
       \E g \in {computeGeometry(xmic, xgun)},
          Ae \in {FMul(FSq(FDiv(loc.bulletDiam, FromInt(2))), FPi)},
          M \in {MachNumber(loc.uexit)} :
         \E mu \in {momentumindex(M, loc.pexit, gammae)},
            xmiss \in {FMul(g.r, FSin(g.theta))} :
           loc' = [loc EXCEPT !.xmic = xmic, !.xgun = xgun, !.ngun = ngun, !.r = g.r,
                              !.theta = g.theta, !.Ae = Ae, !.M = M, !.mu = mu,
                              !.xmiss = xmiss]
  /\ pc' = "geometry"
  /\ UNCHANGED <<input, geomDict, ballistDict, ret, exc, probe>>

\* lines 43-44: the muzzle blast, always computed.
MuzzleBlast ==
  /\ pc = "geometry"
  /\ \E gammae \in {Lit(124, -2)}, Vp \in {loc.uexit}, Lm \in {loc.barrelLength},
        d \in {loc.bulletDiam} :
       \E mb \in {calculatemuzzleblast(gammae, loc.pexit, loc.uexit, loc.Ae, loc.mu,
                                       loc.theta, loc.r, d, Lm, Vp, loc.duration, loc.Fs)} :
         loc' = [loc EXCEPT !.Pmb = mb.Pmb, !.t = mb.t, !.sig = mb.Pmb, !.mb = mb.p]
  /\ pc' = "blast"
  /\ UNCHANGED <<input, geomDict, ballistDict, ret, exc, probe>>

\* line 45: the cone angle, of the raw exit velocity, before any check.
ConeAngle ==
  /\ pc = "blast"
  /\ IF coneAngleRaises(loc.uexit)
     THEN /\ exc' = "ZeroDivisionError"
          /\ pc' = "raised"
          /\ UNCHANGED loc
     ELSE /\ \E thM \in {coneAngle(loc.uexit)} : loc' = [loc EXCEPT !.thM = thM]
          /\ pc' = "cone"
          /\ UNCHANGED exc
  /\ UNCHANGED <<input, geomDict, ballistDict, ret, probe>>

\* lines 47-51: the N-wave, when there is a sonic boom.
SonicBoom ==
  /\ pc = "cone"
  /\ \E zeros \in {Zeros(Len(loc.sig))}, d \in {loc.bulletDiam}, l \in {loc.bulletLen} :
       IF haveSonicBoom(loc.uexit, loc.theta, loc.thM)
       THEN \E nw \in {calculateNWave(loc.xgun, loc.ngun, loc.xmic, loc.uexit, d, l,
                                      loc.xmiss, loc.duration, loc.Fs)},
               md \in {missDistance(loc.xgun, loc.ngun, loc.xmic)} :
              loc' = [loc EXCEPT !.Pnw = nw.wv, !.boom = TRUE,
                                 !.sig = ArrayAdd(loc.Pmb, nw.wv), !.nw = nw.p, !.md = md]
       ELSE loc' = [loc EXCEPT !.Pnw = zeros]
  /\ pc' = "gated"
  /\ UNCHANGED <<input, geomDict, ballistDict, ret, exc, probe>>

\* line 53, and line 73 of getGunShot.
Return ==
  /\ pc = "gated"
  /\ ret' = <<loc.sig, loc.Pmb, loc.Pnw>>
  /\ pc' = "done"
  /\ UNCHANGED <<input, geomDict, ballistDict, loc, exc, probe>>

\* ---- direct calls of library functions ---------------------------------------
\* A behaviour without a shot makes one direct call.
CallFriedlander ==
  /\ pc = "idle"
  /\ ~input.run
  /\ probe = NoProbe
  /\ \E t \in ProbeTimes, ta \in ProbeArrivals \cup {NaN}, tau \in {FOne, FromInt(2)},
        Pp \in {FOne, Lit(5, -1)} :
       \E out \in {friedlander(t, ta, tau, Pp)} :
         probe' = [fn |-> "friedlander", args |-> <<t, ta, tau, Pp>>, out |-> out]
  /\ exc' = "none"
  /\ UNCHANGED <<input, pc, geomDict, ballistDict, loc, ret>>

\* nWave from the point where its parameters pmax, ta, Td, tr are known.
CallNWave ==
  /\ pc = "idle"
  /\ ~input.run
  /\ probe = NoProbe
  /\ \E t \in ProbeTimes, ta \in ProbeArrivals, tr \in {FOne, Lit(5, -1)},
        Td \in {FromInt(2), FromInt(3), FromInt(4)}, pmax \in {FromInt(3)} :
       \E out \in {nWaveSegments(pmax, ta, Td, tr, t)} :
         probe' = [fn |-> "nWave", args |-> <<pmax, ta, Td, tr, t>>, out |-> out]
  /\ exc' = "none"
  /\ UNCHANGED <<input, pc, geomDict, ballistDict, loc, ret>>

CallMachNumber ==
  /\ pc = "idle"
  /\ ~input.run
  /\ probe = NoProbe
  /\ \E v \in {FromInt(u) : u \in ExitVelocities} :
       \E out \in {MachNumber(v)} :
         probe' = [fn |-> "MachNumber", args |-> <<v>>, out |-> out]
  /\ exc' = "none"
  /\ UNCHANGED <<input, pc, geomDict, ballistDict, loc, ret>>

CallConeAngle ==
  /\ pc = "idle"
  /\ ~input.run
  /\ probe = NoProbe
  /\ \E M \in ProbeMachs \cup {MachNumber(FromInt(u)) : u \in ExitVelocities} :
       IF coneAngleRaises(M)
       THEN /\ probe' = [fn |-> "coneAngle", args |-> <<M>>, out |-> NaN]
            /\ exc' = "ZeroDivisionError"
       ELSE /\ \E out \in {coneAngle(M)} :
                 probe' = [fn |-> "coneAngle", args |-> <<M>>, out |-> out]
            /\ exc' = "none"
  /\ UNCHANGED <<input, pc, geomDict, ballistDict, loc, ret>>

\* The two regime-switched functions of one muzzle-blast computation, called
\* as calculatemuzzleblast calls them: with the same r and lp.
CallMuzzleBlastShape ==
  /\ pc = "idle"
  /\ ~input.run
  /\ probe = NoProbe
  /\ \E r \in ProbeRanges, lp \in ProbeScalings :
       \E tau \in {positivePhaseDurationBranch(r, lp, FDiv(lp, FromInt(10)), Lit(3, -1),
                                               FromInt(900))},
          Pb \in {peakOverpressureBranch(r, lp)} :
         probe' = [fn |-> "muzzleBlastShape", args |-> <<r, lp>>,
                   out |-> [tau |-> tau.out, Pb |-> Pb.out,
                            tauBranch |-> tau.branch, PbBranch |-> Pb.branch]]
  /\ exc' = "none"
  /\ UNCHANGED <<input, pc, geomDict, ballistDict, loc, ret>>

Next ==
  \/ CallMuzzleBlastShape
  \/ CallFriedlander
  \/ CallNWave
  \/ CallMachNumber
  \/ CallConeAngle
  \/ Pack
  \/ GetGunShot
  \/ Geometry
  \/ MuzzleBlast
  \/ ConeAngle
  \/ SonicBoom
  \/ Return

Spec == Init /\ [][Next]_vars

\* ---- properties ---------------------------------------------------------------
\* The synthesis has returned its three arrays.
Returned == pc = "done"
\* duration * Fs, the float handed to np.linspace as the number of samples
SampleCount == FMul(input.duration, input.Fs)

SameSample(x, y) == ~IsNaN(x) /\ ~IsNaN(y) /\ x = y
\* The synthesis is past the sonic-boom branch, for a microphone away from the gun.
PastGate == pc \in {"gated", "done"} /\ FGt(loc.r, Zero)
\* The gate as stated: exitVelocity > 341.0 and theta < pi - coneAngle(exitVelocity)
C2_GateOpen ==
  /\ FGt(input.uexit, Lit(341, 0))
  /\ FLt(loc.theta, FSub(FPi, FArcsin(FDiv(FOne, input.uexit))))

\* C2: the N-wave signal comes from the N-wave model if and only if
\* exitVelocity > 341.0 and theta < pi - coneAngle(exitVelocity). Otherwise (every
\* subsonic shot included) the call returns without an exception, the N-wave
\* signal is all zeros and the total signal equals the muzzle blast sample for
\* sample; with the gate open the total is the element-wise sum of the two.
C2_SonicBoomGate ==
  /\ pc # "raised"
  /\ PastGate =>
       /\ exc = "none"
       /\ loc.boom <=> C2_GateOpen
       /\ IF C2_GateOpen
          THEN /\ loc.Pnw = calculateNWave(loc.xgun, loc.ngun, loc.xmic, loc.uexit,
                                           loc.bulletDiam, loc.bulletLen, loc.xmiss,
                                           loc.duration, loc.Fs).wv
               /\ \A i \in 1..Len(loc.sig) : loc.sig[i] = FAdd(loc.Pmb[i], loc.Pnw[i])
          ELSE /\ \A i \in 1..Len(loc.Pnw) : loc.Pnw[i] = Zero
               /\ Len(loc.sig) = Len(loc.Pmb)
               /\ \A i \in 1..Len(loc.sig) : SameSample(loc.sig[i], loc.Pmb[i])
       /\ pc = "done" => ret = <<loc.sig, loc.Pmb, loc.Pnw>>

\* A supersonic shot returned with the gate open, where one sample carries both
\* a muzzle-blast and an N-wave contribution and the total is their sum.
C2_Witness ==
  /\ Returned
  /\ loc.boom
  /\ \E i \in 1..Len(ret[1]) :
       /\ ret[2][i] # Zero
       /\ ret[3][i] # Zero
       /\ ret[1][i] = FAdd(ret[2][i], ret[3][i])
       /\ ret[1][i] # ret[2][i]

\* The time base calculatemuzzleblast sampled is known.
Sampled == pc \in {"blast", "cone", "gated", "done"}
\* One hundredth of a sample period
C3_Tolerance == FDiv(Lit(1, -2), input.Fs)

\* C3 as stated: the generators evaluate their sample function at t_i = i / Fs,
\* i = 0 .. N-1 (here to within a hundredth of a sample period), so the last
\* sample time, (N-1)/Fs, is strictly less than duration.
C3_SamplesEveryPeriod ==
  Sampled =>
    /\ \A i \in 1..Len(loc.t) :
         FLe(FAbs(FSub(loc.t[i], FDiv(FromInt(i - 1), input.Fs))), C3_Tolerance)
    /\ Len(loc.t) > 0 => FLt(loc.t[Len(loc.t)], input.duration)

\* What the code does instead: the samples are spread over the closed interval
\* [0, duration], so with more than one sample the last sample time is duration.
C3_Witness ==
  /\ Sampled
  /\ Len(loc.t) = 4
  /\ input.duration = Lit(1, -2) /\ input.Fs = FromInt(400)
  /\ loc.t[4] = input.duration
  /\ FGt(loc.t[2], Lit(33, -4)) /\ FLt(loc.t[2], Lit(34, -4))

\* Pp * (1 - (t-ta)/tau) * exp(-(t-ta)/tau) * pinf * ainf, as the claim writes it
C4_Wave(t, ta, tau, Pp) ==
  FMul(FMul(FMul(FMul(Pp, FSub(FOne, FDiv(FSub(t, ta), tau))),
                 FExp(FNeg(FDiv(FSub(t, ta), tau)))),
            Lit(101, 3)),
       Lit(341, 0))

\* C4: friedlander(t, ta, tau, Pp) is exactly 0 for every t < ta; for every
\* t >= ta, the boundary included, it is
\* Pp * (1-(t-ta)/tau) * exp(-(t-ta)/tau) * pinf * ainf, which at t = ta is
\* Pp * pinf * ainf; so every muzzle-blast sample taken before the arrival time
\* is exactly 0.
C4_Friedlander ==
  /\ probe.fn = "friedlander" =>
       LET t == probe.args[1]
           ta == probe.args[2]
           tau == probe.args[3]
           Pp == probe.args[4]
       IN /\ FLt(t, ta) => probe.out = Zero
          /\ FGe(t, ta) => probe.out = C4_Wave(t, ta, tau, Pp)
          /\ SameSample(t, ta) => probe.out = FMul(FMul(Pp, Lit(101, 3)), Lit(341, 0))
  /\ Sampled =>
       /\ Len(loc.Pmb) = Len(loc.t)
       /\ \A i \in 1..Len(loc.t) :
            /\ FLt(loc.t[i], loc.mb.ta) => loc.Pmb[i] = Zero
            /\ FGe(loc.t[i], loc.mb.ta) =>
                 loc.Pmb[i] = C4_Wave(loc.t[i], loc.mb.ta, loc.mb.tau, loc.mb.Pb)

\* friedlander called at the arrival time itself: Pp * pinf * ainf, not 0.
C4_Witness ==
  /\ probe.fn = "friedlander"
  /\ probe.args[1] = FromInt(2) /\ probe.args[2] = FromInt(2)
  /\ probe.out = FMul(FMul(probe.args[4], Lit(101, 3)), Lit(341, 0))
  /\ probe.out # Zero

\* C5: for Td > 2*tr > 0, nWave is 0 for t < ta and for t > ta+Td; at the
\* boundaries it is 0 at t = ta, pmax at t = ta+tr, -pmax at t = ta+Td-tr and 0 at
\* t = ta+Td; and the two segment formulas that meet at a boundary give the same
\* value there.
C5_NWaveBoundaries ==
  probe.fn = "nWave" =>
    LET pmax == probe.args[1]
        ta == probe.args[2]
        Td == probe.args[3]
        tr == probe.args[4]
        t == probe.args[5]
        t1 == FAdd(ta, tr)
        t2 == FSub(FAdd(ta, Td), tr)
        t3 == FAdd(ta, Td)
    IN (FGt(Td, FMul(FromInt(2), tr)) /\ FGt(tr, Zero)) =>
         /\ FLt(t, ta) => probe.out = Zero
         /\ FGt(t, t3) => probe.out = Zero
         /\ t = ta => probe.out = Zero
         /\ t = t1 => probe.out = pmax
         /\ t = t2 => probe.out = FNeg(pmax)
         /\ t = t3 => probe.out = Zero
         /\ nWaveRising(pmax, ta, tr, ta) = Zero
         /\ nWaveRising(pmax, ta, tr, t1) = pmax
         /\ nWaveFalling(pmax, ta, Td, tr, t1) = pmax
         /\ nWaveFalling(pmax, ta, Td, tr, t2) = FNeg(pmax)
         /\ nWaveRecovering(pmax, ta, Td, tr, t2) = FNeg(pmax)
         /\ nWaveRecovering(pmax, ta, Td, tr, t3) = Zero

\* nWave called at the end of the falling segment, t = ta + Td - tr.
C5_Witness ==
  /\ probe.fn = "nWave"
  /\ probe.args = <<FromInt(3), FromInt(2), FromInt(3), Lit(5, -1), Lit(45, -1)>>
  /\ probe.out = FromInt(-3)

\* The supersonic scenario of the specification has returned.
ScenarioReturned == Returned /\ input = Scenario(900)

\* C6 (as the code has it): in the supersonic scenario (gun (0,0,0), barrel
\* (0,0,1), mic (0,0,100), 900 m/s, 0.05 s at 48 kHz) the sonic-boom branch is
\* taken, but the N-wave arrives after the 0.05 s window and so does the muzzle
\* blast: all 2400 samples of all three returned arrays are zero.
C6_ScenarioIsSilent ==
  ScenarioReturned =>
    /\ loc.boom
    /\ Len(ret[1]) = 2400 /\ Len(ret[2]) = 2400 /\ Len(ret[3]) = 2400
    /\ FGt(loc.nw.ta, input.duration)
    /\ FGt(loc.mb.ta, input.duration)
    /\ \A i \in 1..2400 : ret[1][i] = Zero /\ ret[2][i] = Zero /\ ret[3][i] = Zero

\* C6 as stated: in that scenario the N-wave signal has a nonzero sample and
\* the muzzle-blast signal has a nonzero sample.
C6_ScenarioIsAudible ==
  ScenarioReturned =>
    /\ \E i \in 1..Len(ret[3]) : ret[3][i] # Zero
    /\ \E i \in 1..Len(ret[2]) : ret[2][i] # Zero

\* The supersonic scenario returned after taking the sonic-boom branch; its
\* N-wave arrives at 0.111 s.
C6_Witness ==
  /\ ScenarioReturned
  /\ loc.boom
  /\ Len(ret[3]) = 2400
  /\ FGt(loc.nw.ta, Lit(11, -2)) /\ FLt(loc.nw.ta, Lit(12, -2))

\* A shot whose microphone is at the gun position
DegenerateShot == input.run /\ input.xmic.v = input.xgun.v
\* computeGeometry has returned to _getAnechoicGunshot.
PastGeometry == pc \in {"geometry", "blast", "cone", "gated", "done"}

\* C7 as stated: when micPos == gunPos, computeGeometry fails with
\* DegenerateGeometryError rather than returning a (distance, angle) pair, and
\* the synthesis returns no arrays.
C7_DegenerateGeometryRaises ==
  DegenerateShot =>
    /\ ~PastGeometry
    /\ ret = << >>
    /\ pc \notin {"idle", "packed", "unpacked"} => exc = "DegenerateGeometryError"

\* What the code does instead: distance 0 and angle NaN are returned, and the
\* synthesis returns an all-NaN muzzle blast with an all-zero N-wave.
C7_Witness ==
  /\ DegenerateShot
  /\ Returned
  /\ exc = "none"
  /\ loc.r = Zero /\ IsNaN(loc.theta)
  /\ Len(ret[2]) = 3
  /\ \A i \in 1..3 : IsNaN(ret[1][i]) /\ IsNaN(ret[2][i]) /\ ret[3][i] = Zero

\* C8 as stated: MachNumber(341.0) is 1.0; coneAngle(M) fails with SubsonicError
\* for every M <= 1; and _getAnechoicGunshot evaluates coneAngle only once the
\* supersonic check uexit > 341.0 has passed.
C8_ConeAngleGuarded ==
  /\ (probe.fn = "MachNumber" /\ probe.args[1] = FromInt(341)) => probe.out = FOne
  /\ (probe.fn = "coneAngle" /\ FLe(probe.args[1], FOne)) => exc = "SubsonicError"
  /\ pc \in {"cone", "gated", "done"} => FGt(loc.uexit, Lit(341, 0))

\* What the code does instead: a subsonic shot (200 m/s) reaches line 46 with
\* coneAngle(uexit) evaluated, to arcsin(1/200), and no exception.
C8_Witness ==
  /\ pc = "cone"
  /\ input.uexit = FromInt(200)
  /\ exc = "none"
  /\ FGt(loc.thM, Lit(49, -4)) /\ FLt(loc.thM, Lit(51, -4))

\* coneAngle called with M = 1 returns pi/2; no exception.
C8_ConeAngleOfOne ==
  /\ probe.fn = "coneAngle"
  /\ probe.args[1] = FOne
  /\ probe.out = FHalfPi
  /\ exc = "none"

\* getGunShot has unpacked both records into its locals.
Unpacked == pc \notin {"idle", "packed"}

\* C9: unpacking a packed scene yields each of gun position, microphone
\* position, barrel direction and label equal to the original field of that
\* name, and unpacking packed ballistics yields each of its seven fields equal to
\* the original of that name.
C9_RoundTrip ==
  Unpacked =>
    /\ loc.xgun = input.xgun
    /\ loc.xmic = input.xmic
    /\ loc.ngun = input.ngun
    /\ loc.label = input.label
    /\ loc.bulletDiam = input.bulletDiam
    /\ loc.bulletLen = input.bulletLen
    /\ loc.barrelLength = input.barrelLength
    /\ loc.pexit = input.pexit
    /\ loc.uexit = input.uexit
    /\ loc.gunlabel = input.gunlabel
    /\ loc.ammolabel = input.ammolabel

\* A scene with distinct gun and microphone positions, packed as lists and
\* unpacked as arrays again.
C9_Witness ==
  /\ pc = "unpacked"
  /\ geomDict.xgun.tag = "list" /\ geomDict.xmic.tag = "list"
  /\ input.xgun # input.xmic
  /\ loc.xgun = input.xgun /\ loc.xmic = input.xmic
  /\ loc.gunlabel = "gun" /\ loc.ammolabel = "ammo"
  /\ loc.uexit = input.uexit

\* One hundredth of the squared range
C10_Tolerance == FMul(Lit(1, -2), FSq(loc.r))

\* C10 as stated: the miss distance x handed to the N-wave overpressure and
\* duration formulas is the perpendicular distance from the microphone to the
\* line through the gun along the barrel: x^2 equals (here to within a hundredth
\* of the squared range) the square of the dmis that missDistance returns for
\* the same shot.
C10_MissDistanceAgrees ==
  (PastGate /\ loc.boom) =>
    FLe(FAbs(FSub(FSq(loc.xmiss), FSq(loc.md.dmis))), C10_Tolerance)

\* What the code does instead: a microphone 1 m down the barrel line, barrel
\* along z, has dmis = 0 but is given x = r * sin(theta) = 1 m.
C10_Witness ==
  /\ PastGate /\ loc.boom
  /\ loc.md.dmis = Zero
  /\ loc.md.dlin = FOne
  /\ loc.xmiss = FOne
  /\ loc.nw.pmax = nWaveOverPressure(loc.uexit, loc.bulletDiam, loc.bulletLen, FOne)

\* C11: within one muzzle-blast computation peakOverpressure and
\* positivePhaseDuration take the same branch for the same (r, lp): both the
\* near-field branch exactly when r/lp < 50, both the far-field branch
\* otherwise, r/lp = 50 itself included in the far field.
C11_SameRegime ==
  /\ probe.fn = "muzzleBlastShape" =>
       LET rb == FDiv(probe.args[1], probe.args[2])
       IN /\ probe.out.PbBranch = probe.out.tauBranch
          /\ probe.out.PbBranch \in {"near", "far"}
          /\ probe.out.PbBranch = "near" <=> FLt(rb, FromInt(50))
          /\ rb = FromInt(50) => probe.out.PbBranch = "far" /\ probe.out.tauBranch = "far"
  /\ Sampled =>
       LET rb == FDiv(loc.r, loc.mb.lp)
       IN /\ loc.mb.PbBranch = loc.mb.tauBranch
          /\ loc.mb.PbBranch \in {"near", "far"}
          /\ loc.mb.PbBranch = "near" <=> FLt(rb, FromInt(50))

\* Both functions called with r = 50, lp = 1, on the threshold: both far field.
C11_Witness ==
  /\ probe.fn = "muzzleBlastShape"
  /\ probe.args = <<FromInt(50), FOne>>
  /\ probe.out.PbBranch = "far"
  /\ probe.out.tauBranch = "far"
  /\ IsFin(probe.out.Pb) /\ IsFin(probe.out.tau)

\* A shot whose microphone is in the near field (r/lp < 50) for both functions.
C11_NearShot ==
  /\ Sampled
  /\ loc.mb.PbBranch = "near" /\ loc.mb.tauBranch = "near"
  /\ FGt(loc.mb.Pb, Zero) /\ FGt(loc.mb.tau, Zero)

====
